---- MODULE Spec2Model ----
(***************************************************************************)
(* String Analyzer (src/main.py): an in-memory store of analysed strings   *)
(* keyed by the SHA-256 of the text, with get, structured listing,         *)
(* natural-language listing and delete.                                    *)
(*                                                                         *)
(* A Python str is a TLA+ string; s[i] is Char(s, i).                   *)
(***************************************************************************)
EXTENDS Integers, Sequences, FiniteSets, Bags, TLC

VARIABLES analysis_db, now, calls, resp

vars == <<analysis_db, now, calls, resp>>

(***************************************************************************)
(* Bounds of the model.                                                    *)
(***************************************************************************)
\* largest value of the UTC clock read by datetime.now
MaxClock == 1
\* analyze-and-store calls that may be in flight in the thread pool at once
MaxInFlight == 2
\* fragments concatenated into one natural-language query
MaxFrags == 3

(***************************************************************************)
(* Python str primitives.                                                  *)
(***************************************************************************)
\* s[i-1:j] of Python: the characters i..j of s that exist
Slice(s, i, j) ==
  LET lo == IF i < 1 THEN 1 ELSE i
      hi == IF j > Len(s) THEN Len(s) ELSE j
  IN IF lo > hi THEN "" ELSE SubSeq(s, lo, hi)

\* s[i-1] of Python, for a position of s
Char(s, i) == SubSeq(s, i, i)

LowerAlpha == "abcdefghijklmnopqrstuvwxyz"
Digits == "0123456789"

\* 0 when c does not occur in the alphabet s, else its (1-based) position
IndexIn(s, c) ==
  IF \E i \in 1..Len(s) : Char(s, i) = c
  THEN CHOOSE i \in 1..Len(s) : Char(s, i) = c
  ELSE 0

\* the lower-case letter of each upper-case ASCII letter
LowerOf ==
  ("A" :> "a") @@ ("B" :> "b") @@ ("C" :> "c") @@ ("D" :> "d") @@ ("E" :> "e") @@
  ("F" :> "f") @@ ("G" :> "g") @@ ("H" :> "h") @@ ("I" :> "i") @@ ("J" :> "j") @@
  ("K" :> "k") @@ ("L" :> "l") @@ ("M" :> "m") @@ ("N" :> "n") @@ ("O" :> "o") @@
  ("P" :> "p") @@ ("Q" :> "q") @@ ("R" :> "r") @@ ("S" :> "s") @@ ("T" :> "t") @@
  ("U" :> "u") @@ ("V" :> "v") @@ ("W" :> "w") @@ ("X" :> "x") @@ ("Y" :> "y") @@
  ("Z" :> "z")

LowerChar(c) == IF c \in DOMAIN LowerOf THEN LowerOf[c] ELSE c

\* str.lower()
RECURSIVE Lower(_)
Lower(s) == IF Len(s) = 0 THEN "" ELSE LowerChar(Char(s, 1)) \o Lower(Tail(s))

\* s[::-1]
RECURSIVE Reverse(_)
Reverse(s) == IF Len(s) = 0 THEN "" ELSE Reverse(Tail(s)) \o Char(s, 1)

\* str.isspace() of one character (the ASCII whitespace the model's texts use)
IsSpace(c) == c \in {" ", "\t", "\n"}

IsDigit(c) == IndexIn(Digits, c) # 0

\* the least index >= from at which sub occurs in s, 0 when there is none
\* (str.find, 1-based)
Find(s, sub, from) ==
  LET hits == {i \in from..(Len(s) - Len(sub) + 1) : Slice(s, i, i + Len(sub) - 1) = sub}
  IN IF hits = {} THEN 0 ELSE CHOOSE i \in hits : \A j \in hits : i <= j

\* sub in s
Contains(sub, s) == Find(s, sub, 1) # 0

(***************************************************************************)
(* Property calculator and identity encoder.                               *)
(***************************************************************************)
\* hashlib.sha256(text.encode('utf-8')).hexdigest(): an injective digest
sha_encoder(text) == "sha256:" \o text

is_palindrome(text) == LET lowered == Lower(text) IN lowered = Reverse(lowered)

\* len(text.split()): the maximal runs of non-whitespace characters
word_count(text) ==
  Cardinality({i \in 1..Len(text) :
                 /\ ~IsSpace(Char(text, i))
                 /\ (i = 1 \/ IsSpace(Char(text, i - 1)))})

unique_chars(text) == Cardinality({Char(text, i) : i \in 1..Len(text)})

count_char_frequency_dict(text) ==
  [c \in {Char(text, i) : i \in 1..Len(text)} |->
     Cardinality({i \in 1..Len(text) : Char(text, i) = c})]

(***************************************************************************)
(* The store: analysis_db, a Python dict.  A dict keeps its keys in        *)
(* insertion order, so it is a sequence of <<key, value>> entries with     *)
(* pairwise different keys.                                                *)
(***************************************************************************)
None == <<>>
Some(v) == <<v>>

DictKeys(d) == {d[i].key : i \in 1..Len(d)}

\* k in d
HasKey(d, k) == k \in DictKeys(d)

\* d[k], for a key of d
DictGet(d, k) == d[CHOOSE i \in 1..Len(d) : d[i].key = k].val

\* d.values()
DictValues(d) == [i \in 1..Len(d) |-> d[i].val]

\* d[k] = v on a dict that always appends: a second entry for a key it holds
DictSetAppend(d, k, v) == Append(d, [key |-> k, val |-> v])

\* d[k] = v: a key already there keeps its place and takes the new value
DictSet(d, k, v) ==
  IF HasKey(d, k)
  THEN [i \in 1..Len(d) |-> IF d[i].key = k THEN [key |-> k, val |-> v] ELSE d[i]]
  ELSE Append(d, [key |-> k, val |-> v])

\* del d[k], for a key of d
DictDel(d, k) == SelectSeq(d, LAMBDA e : e.key # k)

\* the dict literal check_string stores ("created at" is the field created_at)
NewRecord(text, now_utc) ==
  [id |-> sha_encoder(text),
   value |-> text,
   properties |->
     [length |-> Len(text),
      is_palindrome |-> is_palindrome(text),
      unique_characters |-> unique_chars(text),
      word_count |-> word_count(text),
      sha256_hash |-> sha_encoder(text),
      character_frequency_map |-> count_char_frequency_dict(text)],
   created_at |-> now_utc]

\* the name id in check_string is Python's builtin function, not the string_id
BuiltinId == "<built-in function id>"

(***************************************************************************)
(* Inputs.                                                                 *)
(***************************************************************************)
Texts == {"racecar", "hello world", "Apple"}

\* what a caller passes to get and delete: a digest, or (as the path
\* parameter's name suggests) the raw text
Lookups == {sha_encoder(t) : t \in Texts} \cup {"racecar"}

NoResp == [op |-> "none", arg |-> "", status |-> "none", body |-> <<>>, existed |-> FALSE]

Response(op, arg, status, body) ==
  [op |-> op, arg |-> arg, status |-> status, body |-> body, existed |-> FALSE]

(***************************************************************************)
(* The handlers.                                                           *)
(***************************************************************************)
Init ==
  /\ analysis_db = <<>>
  /\ now = 0
  /\ calls = EmptyBag
  /\ resp = NoResp

\* the clock datetime.now reads moves on
Tick ==
  /\ now < MaxClock
  /\ now' = now + 1
  /\ UNCHANGED <<analysis_db, calls, resp>>

\* the outcome of check_string after its assignment to analysis_db: the three
\* error checks, then the read of analysis_db[string_id]
CheckStringResult(db, text, existed) ==
  IF HasKey(db, BuiltinId)
  THEN [op |-> "analyze", arg |-> text, status |-> "Conflict", body |-> <<>>,
        existed |-> existed]
  ELSE IF ~HasKey(db, sha_encoder(text))
  THEN [op |-> "analyze", arg |-> text, status |-> "InternalError", body |-> <<>>,
        existed |-> existed]
  ELSE [op |-> "analyze", arg |-> text, status |-> "OK",
        body |-> <<DictGet(db, sha_encoder(text))>>, existed |-> existed]

\* POST /strings, first half (a thread of the pool): the record is written
\* under its digest.  existed records whether the digest was a key before.
CheckStringStore(text) ==
  /\ BagCardinality(calls) < MaxInFlight
  /\ analysis_db' = DictSet(analysis_db, sha_encoder(text), NewRecord(text, now))
  /\ calls' = calls (+) SetToBag({[text |-> text,
                                   existed |-> HasKey(analysis_db, sha_encoder(text))]})
  /\ UNCHANGED <<now, resp>>

\* POST /strings, second half: the checks and the return
CheckStringReturn(c) ==
  /\ BagIn(c, calls)
  /\ calls' = calls (-) SetToBag({c})
  /\ resp' = CheckStringResult(analysis_db, c.text, c.existed)
  /\ UNCHANGED <<analysis_db, now>>

\* GET /strings/{string_value}
get_string(string_id) ==
  /\ resp' = IF HasKey(analysis_db, string_id)
             THEN Response("get", string_id, "OK", <<DictGet(analysis_db, string_id)>>)
             ELSE Response("get", string_id, "NotFound", <<>>)
  /\ UNCHANGED <<analysis_db, now, calls>>

\* a delete that empties the store when it finds the key
delete_string_clear(string) ==
  /\ analysis_db' = IF HasKey(analysis_db, string) THEN <<>> ELSE analysis_db
  /\ resp' = IF HasKey(analysis_db, string)
             THEN Response("delete", string, "OK", <<>>)
             ELSE Response("delete", string, "NotFound", <<>>)
  /\ UNCHANGED <<now, calls>>

\* DELETE /strings/{string_value}
delete_string(string) ==
  /\ analysis_db' = IF HasKey(analysis_db, string)
                    THEN DictDel(analysis_db, string)
                    ELSE analysis_db
  /\ resp' = IF HasKey(analysis_db, string)
             THEN Response("delete", string, "OK", <<>>)
             ELSE Response("delete", string, "NotFound", <<>>)
  /\ UNCHANGED <<now, calls>>

Next ==
  \/ Tick
  \/ \E text \in Texts : CheckStringStore(text)
  \/ \E c \in BagToSet(calls) : CheckStringReturn(c)
  \/ \E id \in Lookups : get_string(id)
  \/ \E id \in Lookups : delete_string(id)

Spec == Init /\ [][Next]_vars

(***************************************************************************)
(* The natural-language translator.                                        *)
(***************************************************************************)
\* str.strip() of ASCII whitespace, as int() does before it parses
RECURSIVE Strip(_)
Strip(s) ==
  IF Len(s) = 0 THEN s
  ELSE IF IsSpace(Char(s, 1)) THEN Strip(Tail(s))
  ELSE IF IsSpace(Char(s, Len(s))) THEN Strip(Slice(s, 1, Len(s) - 1))
  ELSE s

\* the value of a run of decimal digits (underscores skipped)
RECURSIVE DigitsValue(_)
DigitsValue(s) ==
  IF Len(s) = 0 THEN 0
  ELSE IF Char(s, Len(s)) = "_" THEN DigitsValue(Slice(s, 1, Len(s) - 1))
  ELSE DigitsValue(Slice(s, 1, Len(s) - 1)) * 10 + (IndexIn(Digits, Char(s, Len(s))) - 1)

\* int(s): optional whitespace around an optional sign and decimal digits,
\* single underscores allowed between digits; ok is FALSE for ValueError
IntParse(s) ==
  LET t == Strip(s)
      signed == Len(t) > 0 /\ Char(t, 1) \in {"+", "-"}
      d == IF signed THEN Tail(t) ELSE t
      wellFormed ==
        /\ Len(d) > 0
        /\ IsDigit(Char(d, 1))
        /\ IsDigit(Char(d, Len(d)))
        /\ \A i \in 1..Len(d) : IsDigit(Char(d, i)) \/ Char(d, i) = "_"
        /\ \A i \in 1..(Len(d) - 1) : ~(Char(d, i) = "_" /\ Char(d, i + 1) = "_")
  IN IF ~wellFormed THEN [ok |-> FALSE, val |-> 0]
     ELSE [ok |-> TRUE,
           val |-> IF signed /\ Char(t, 1) = "-" THEN 0 - DigitsValue(d) ELSE DigitsValue(d)]

\* query.split("longer than ")[1].split(" characters")[0]; ok is FALSE for
\* the IndexError of a query without "longer than "
LengthText(query) ==
  LET i == Find(query, "longer than ", 1)
      rest == Slice(query, i + Len("longer than "), Len(query))
      j == Find(rest, "longer than ", 1)
      piece == IF j = 0 THEN rest ELSE Slice(rest, 1, j - 1)
      k == Find(piece, " characters", 1)
  IN IF i = 0 THEN [ok |-> FALSE, text |-> ""]
     ELSE [ok |-> TRUE, text |-> IF k = 0 THEN piece ELSE Slice(piece, 1, k - 1)]

\* the end of the run of digits that starts at position i of s (i - 1 when
\* s[i] is no digit)
DigitRunEnd(s, i) ==
  CHOOSE e \in (i - 1)..Len(s) :
    /\ \A x \in i..e : IsDigit(Char(s, x))
    /\ (e = Len(s) \/ ~IsDigit(Char(s, e + 1)))

\* re.search(r"longer than (\d+) characters", query): group 1 of the
\* leftmost match, None when there is no match
SearchLongerThan(query) ==
  LET pre == "longer than "
      post == " characters"
      hits == {i \in 1..Len(query) :
                 /\ Slice(query, i, i + Len(pre) - 1) = pre
                 /\ DigitRunEnd(query, i + Len(pre)) >= i + Len(pre)
                 /\ LET e == DigitRunEnd(query, i + Len(pre))
                    IN Slice(query, e + 1, e + Len(post)) = post}
  IN IF hits = {} THEN None
     ELSE LET i == CHOOSE x \in hits : \A y \in hits : x <= y
          IN Some(Slice(query, i + Len(pre), DigitRunEnd(query, i + Len(pre))))

\* re.search(r"strings containing the letter ([a-z])", query)
SearchLetter(query) ==
  LET pre == "strings containing the letter "
      hits == {i \in 1..Len(query) :
                 /\ Slice(query, i, i + Len(pre) - 1) = pre
                 /\ i + Len(pre) <= Len(query)
                 /\ IndexIn(LowerAlpha, Char(query, i + Len(pre))) # 0}
  IN IF hits = {} THEN None
     ELSE LET i == CHOOSE x \in hits : \A y \in hits : x <= y
          IN Some(Char(query, i + Len(pre)))

\* the filters dict: a key that is absent is None
NoFilters ==
  [word_count |-> None, is_palindrome |-> None, min_length |-> None,
   contains_character |-> None, contains_vowel |-> None]

\* lines 182-200: the rules applied whatever the first branch did
LaterRules(query, filters) ==
  LET m == SearchLongerThan(query)
      f1 == IF m # None
            THEN [filters EXCEPT !.min_length = Some(DigitsValue(m[1]) + 1)]
            ELSE filters
      f2 == IF Contains("palindromic strings", query)
            THEN [f1 EXCEPT !.is_palindrome = Some(TRUE)]
            ELSE f1
      f3 == IF SearchLetter(query) # None
            THEN [f2 EXCEPT !.contains_character = SearchLetter(query)]
            ELSE f2
  IN IF Contains("contains a vowel", query)
     THEN [f3 EXCEPT !.contains_vowel = Some(TRUE)]
     ELSE f3

\* a translator whose first rule ends the translation
parse_first_rule_terminal(query) ==
  LET q == Lower(query)
  IN IF Contains("single word palindromic strings", q)
     THEN [status |-> "OK",
           filters |-> [NoFilters EXCEPT !.word_count = Some(1),
                                         !.is_palindrome = Some(TRUE)]]
     ELSE [status |-> "OK", filters |-> LaterRules(q, NoFilters)]

\* parse_natural_language_query: status is InvalidArgument for the
\* HTTPException(400) it raises
parse_natural_language_query(query) ==
  IF query = "" THEN [status |-> "OK", filters |-> NoFilters]
  ELSE
    LET q == Lower(query)
        n == IntParse(LengthText(q).text)
    IN IF Contains("single word palindromic strings", q)
       THEN [status |-> "OK",
             filters |-> LaterRules(q, [NoFilters EXCEPT !.word_count = Some(1),
                                                         !.is_palindrome = Some(TRUE)])]
       ELSE IF Contains("single word", q)
       THEN IF LengthText(q).ok /\ n.ok
            THEN [status |-> "OK",
                  filters |-> LaterRules(q, [NoFilters EXCEPT !.word_count = Some(1),
                                                              !.min_length = Some(n.val + 1)])]
            ELSE [status |-> "InvalidArgument", filters |-> NoFilters]
       ELSE [status |-> "OK", filters |-> LaterRules(q, NoFilters)]

\* the queries the translator is applied to: up to MaxFrags of these
\* fragments, one after another
Fragments ==
  {"Single Word Palindromic Strings", "single word", " palindromic strings",
   " strings containing the letter Z", " longer than 5 characters",
   " longer than 12 characters", " longer than ten characters", " longer than 12",
   " contains a vowel", "All"}

RECURSIVE QueriesOf(_)
QueriesOf(n) ==
  IF n = 0 THEN {""}
  ELSE QueriesOf(n - 1) \cup {q \o f : q \in QueriesOf(n - 1), f \in Fragments}

Queries == QueriesOf(MaxFrags)

\* a query is handed to the translator
InitParse ==
  /\ analysis_db = <<>>
  /\ now = 0
  /\ calls = EmptyBag
  /\ \E query \in Queries : resp = Response("query", query, "none", <<>>)

\* the translator applied to the query
Translate ==
  /\ resp.op = "query"
  /\ \E parsed \in {parse_natural_language_query(resp.arg)} :
       resp' = Response("parse", resp.arg, parsed.status, <<parsed.filters>>)
  /\ UNCHANGED <<analysis_db, now, calls>>

NextParse == Translate

SpecParse == InitParse /\ [][NextParse]_vars

(***************************************************************************)
(* The listings.                                                           *)
(***************************************************************************)
\* the condition of filter_string with a strict lower bound on the length
FilterMatchesStrictMin(string, f) ==
  /\ (f.is_palindrome = None \/ string.properties.is_palindrome = f.is_palindrome[1])
  /\ (f.word_count = None \/ string.properties.word_count = f.word_count[1])
  /\ (f.min_length = None \/ Len(string.value) > f.min_length[1])
  /\ (f.max_length = None \/ Len(string.value) <= f.max_length[1])
  /\ (f.contains_character = None \/ Contains(f.contains_character[1], string.value))

\* the condition of filter_string's loop, lines 144-150
FilterMatches(string, f) ==
  /\ (f.is_palindrome = None \/ string.properties.is_palindrome = f.is_palindrome[1])
  /\ (f.word_count = None \/ string.properties.word_count = f.word_count[1])
  /\ (f.min_length = None \/ Len(string.value) >= f.min_length[1])
  /\ (f.max_length = None \/ Len(string.value) <= f.max_length[1])
  /\ (f.contains_character = None \/ Contains(f.contains_character[1], string.value))

\* the loop of filter_string over analysis_db.values(), appending as it goes
RECURSIVE FilterLoop(_, _, _)
FilterLoop(values, f, filtered_strings) ==
  IF values = <<>> THEN filtered_strings
  ELSE FilterLoop(Tail(values), f,
                  IF FilterMatches(Head(values), f)
                  THEN Append(filtered_strings, Head(values))
                  ELSE filtered_strings)

\* the texts analysed and the queries asked in the listings
ListTexts == Texts \cup {"banana"}

NLQueries ==
  {"", "single word palindromic strings", "show me everything",
   "strings longer than 5 characters", "strings containing the letter a",
   "contains a vowel", "   "}

\* parse_natural_language_query over the listed queries, computed once
RECURSIVE TableOf(_)
TableOf(qs) ==
  IF qs = {} THEN <<>>
  ELSE LET query == CHOOSE x \in qs : TRUE
       IN (query :> parse_natural_language_query(query)) @@ TableOf(qs \ {query})

ParseTable == TableOf(NLQueries)

\* the keys of a stored record, which is what len() and in see of a dict
RecordKeys(value) == {"id", "value", "properties", "created at"}

\* one pass of natural_language_filter's loop body over a stored record:
\* "raise" for the AttributeError of a str method called on the dict
NLMatch(value, filters) ==
  IF filters.word_count # None \/ filters.is_palindrome # None THEN "raise"
  ELSE IF /\ (filters.min_length = None
               \/ ~(Cardinality(RecordKeys(value)) < filters.min_length[1]))
          /\ (filters.contains_character = None
               \/ filters.contains_character[1] \in RecordKeys(value))
          /\ (filters.contains_vowel = None
               \/ \E vowel \in {"a", "e", "i", "o", "u"} : vowel \in RecordKeys(value))
  THEN "match"
  ELSE "skip"

\* natural_language_filter from line 216 on, with the filters parsed
NLResult(db, query, filters) ==
  IF \E i \in 1..Len(db) : NLMatch(db[i].val, filters) = "raise"
  THEN Response("nl", query, "InternalError", <<>>)
  ELSE Response("nl", query, "OK",
                SelectSeq(DictValues(db), LAMBDA v : NLMatch(v, filters) = "match"))

FilterSets ==
  [is_palindrome : {None, Some(TRUE), Some(FALSE)},
   min_length : {None, Some(6), Some(8)},
   max_length : {None, Some(7)},
   word_count : {None, Some(1), Some(2)},
   contains_character : {None, Some("a"), Some("A")}]

\* POST /strings as one step: the store and the return with nothing between
check_string(text) ==
  /\ analysis_db' = DictSet(analysis_db, sha_encoder(text), NewRecord(text, now))
  /\ resp' = CheckStringResult(analysis_db', text, HasKey(analysis_db, sha_encoder(text)))
  /\ UNCHANGED <<now, calls>>

\* GET /strings
filter_string(f) ==
  /\ resp' = IF f.min_length # None /\ f.max_length # None
                /\ f.min_length[1] > f.max_length[1]
             THEN Response("filter", f, "InvalidArgument", <<>>)
             ELSE Response("filter", f, "OK", FilterLoop(DictValues(analysis_db), f, <<>>))
  /\ UNCHANGED <<analysis_db, now, calls>>

\* GET /strings/filter-by-natural-language
natural_language_filter(query) ==
  /\ \E parsed \in {ParseTable[query]} :
       resp' = IF query = "" THEN Response("nl", query, "OK", DictValues(analysis_db))
               ELSE IF parsed.status # "OK" THEN Response("nl", query, parsed.status, <<>>)
               ELSE NLResult(analysis_db, query, parsed.filters)
  /\ UNCHANGED <<analysis_db, now, calls>>

NextList ==
  \/ \E text \in ListTexts : check_string(text)
  \/ \E id \in {sha_encoder(t) : t \in ListTexts} : delete_string(id)
  \/ \E f \in FilterSets : filter_string(f)
  \/ \E query \in NLQueries : natural_language_filter(query)

SpecList == Init /\ [][NextList]_vars

(***************************************************************************)
(* Properties of the store (checked under Spec).                           *)
(***************************************************************************)

\* C1: an analyze-and-store call for a text whose record is already in the
\* store (no delete of it since it was inserted) fails with Conflict, so
\* that among the calls for one text exactly one succeeds.
C1_RepeatedAnalyzeConflicts ==
  (resp.op = "analyze" /\ resp.existed) => resp.status = "Conflict"

\* C2: records are write-once: a record that stays in the store over a
\* step keeps its text, its properties and its created_at.
C2_WriteOnce ==
  [][\A k \in DictKeys(analysis_db) \cap DictKeys(analysis_db') :
       DictGet(analysis_db', k) = DictGet(analysis_db, k)]_vars

\* C3: a delete of an identifier that is not a key answers NotFound and
\* leaves the store as it was; a delete of a key removes that entry and no
\* other, every other record staying as it was; and a get of an identifier
\* that is not a key (as after its delete) answers NotFound, a get of a key
\* answers with its record, the store unchanged.
C3_DeleteFrame ==
  [][/\ (resp' # resp /\ resp'.op = "delete") =>
          IF HasKey(analysis_db, resp'.arg)
          THEN /\ resp'.status = "OK"
               /\ ~HasKey(analysis_db', resp'.arg)
               /\ Len(analysis_db') = Len(analysis_db) - 1
               /\ \A k \in DictKeys(analysis_db) \ {resp'.arg} :
                    /\ HasKey(analysis_db', k)
                    /\ DictGet(analysis_db', k) = DictGet(analysis_db, k)
          ELSE /\ resp'.status = "NotFound"
               /\ analysis_db' = analysis_db
     /\ (resp' # resp /\ resp'.op = "get") =>
          /\ analysis_db' = analysis_db
          /\ IF HasKey(analysis_db, resp'.arg)
             THEN resp'.status = "OK" /\ resp'.body = <<DictGet(analysis_db, resp'.arg)>>
             ELSE resp'.status = "NotFound"]_vars

\* a delete has just removed one record of a store that holds others
C3_Witness ==
  /\ resp.op = "delete"
  /\ resp.status = "OK"
  /\ ~HasKey(analysis_db, resp.arg)
  /\ Len(analysis_db) >= 1

\* C10: every key k of the store maps to a record whose id is k, whose
\* properties.sha256_hash is k and whose text hashes to k; and no two
\* entries of the store hold the same text.
C10_KeysAreDigests ==
  /\ \A i \in 1..Len(analysis_db) :
       /\ analysis_db[i].val.id = analysis_db[i].key
       /\ analysis_db[i].val.properties.sha256_hash = analysis_db[i].key
       /\ sha_encoder(analysis_db[i].val.value) = analysis_db[i].key
  /\ \A i, j \in 1..Len(analysis_db) :
       analysis_db[i].val.value = analysis_db[j].val.value => i = j

\* the store holds two records, one of them stored twice over
C10_Witness ==
  /\ Len(analysis_db) >= 2
  /\ resp.op = "analyze"
  /\ resp.existed

(***************************************************************************)
(* Properties of the listings (checked under SpecList, where every step    *)
(* answers a call, so that resp is the answer given on the store as it     *)
(* now is).                                                                *)
(***************************************************************************)
\* a record satisfies every set field among is_palindrome, word_count,
\* min_length and max_length
SatisfiesFields(r, f) ==
  /\ (f.is_palindrome # None => r.properties.is_palindrome = f.is_palindrome[1])
  /\ (f.word_count # None => r.properties.word_count = f.word_count[1])
  /\ (f.min_length # None => r.properties.length >= f.min_length[1])
  /\ (f.max_length # None => r.properties.length <= f.max_length[1])

\* C4: with min_length <= max_length when both are set, the structured
\* listing answers with exactly the stored records that satisfy all the
\* set fields among is_palindrome, min_length, max_length and word_count,
\* in the order of the store; an unset field excludes nothing.
C4_ConjunctiveFilter ==
  (/\ resp.op = "filter"
   /\ resp.arg.contains_character = None
   /\ ~(/\ resp.arg.min_length # None
        /\ resp.arg.max_length # None
        /\ resp.arg.min_length[1] > resp.arg.max_length[1]))
  => /\ resp.status = "OK"
     /\ resp.body = SelectSeq(DictValues(analysis_db),
                              LAMBDA r : SatisfiesFields(r, resp.arg))

\* a listing with min_length and word_count set that kept some records of
\* the store and dropped others
C4_Witness ==
  /\ resp.op = "filter"
  /\ resp.status = "OK"
  /\ resp.arg.contains_character = None
  /\ resp.arg.min_length # None
  /\ resp.arg.word_count # None
  /\ Len(resp.body) >= 2
  /\ Len(resp.body) < Len(analysis_db)

\* C5: the contains_character filter ignores case: a stored record is
\* listed iff it satisfies the other set fields and its text holds the
\* character in upper or in lower case.
C5_ContainsCharacterIgnoresCase ==
  (/\ resp.op = "filter"
   /\ resp.status = "OK"
   /\ resp.arg.contains_character # None)
  => resp.body = SelectSeq(DictValues(analysis_db),
                           LAMBDA r : /\ SatisfiesFields(r, resp.arg)
                                      /\ Contains(Lower(resp.arg.contains_character[1]),
                                                  Lower(r.value)))

\* a record satisfies every predicate of a translated filter set
SatisfiesTranslated(r, filters) ==
  /\ (filters.word_count # None => r.properties.word_count = filters.word_count[1])
  /\ (filters.is_palindrome # None => r.properties.is_palindrome)
  /\ (filters.min_length # None => r.properties.length >= filters.min_length[1])
  /\ (filters.contains_character # None =>
        Contains(filters.contains_character[1], Lower(r.value)))
  /\ (filters.contains_vowel # None =>
        \E vowel \in {"a", "e", "i", "o", "u"} : Contains(vowel, Lower(r.value)))

\* C6: for a non-empty query the translator supports, the natural-language
\* listing completes and answers with exactly the stored records that
\* satisfy every predicate the translator produced for the query.
C6_NaturalLanguageListing ==
  (/\ resp.op = "nl"
   /\ resp.arg # ""
   /\ ParseTable[resp.arg].status = "OK"
   /\ ParseTable[resp.arg].filters # NoFilters)
  => /\ resp.status = "OK"
     /\ resp.body = SelectSeq(DictValues(analysis_db),
                              LAMBDA r : SatisfiesTranslated(r, ParseTable[resp.arg].filters))

\* C7: the empty query lists every stored record, and a query that is not
\* empty, not only whitespace and matches no rule of the translator fails
\* with InvalidArgument.
C7_UnsupportedQueryRejected ==
  resp.op = "nl" =>
    /\ resp.arg = "" => (resp.status = "OK" /\ resp.body = DictValues(analysis_db))
    /\ (/\ Strip(resp.arg) # ""
        /\ ParseTable[resp.arg].status = "OK"
        /\ ParseTable[resp.arg].filters = NoFilters)
       => resp.status = "InvalidArgument"

(***************************************************************************)
(* Properties of the translator (checked under SpecParse).                 *)
(***************************************************************************)
\* C8: a query with "single word" and without "single word palindromic
\* strings" fails with InvalidArgument only when it holds "longer than";
\* without "longer than" it succeeds with word_count = 1 and no min_length.
C8_SingleWordWithoutLength ==
  (/\ resp.op = "parse"
   /\ Contains("single word", Lower(resp.arg))
   /\ ~Contains("single word palindromic strings", Lower(resp.arg)))
  => /\ resp.status = "InvalidArgument" => Contains("longer than", Lower(resp.arg))
     /\ ~Contains("longer than", Lower(resp.arg)) =>
          /\ resp.status = "OK"
          /\ resp.body[1].word_count = Some(1)
          /\ resp.body[1].min_length = None

\* C9 as claimed: for a query with "single word palindromic strings" the
\* filter set is exactly word_count = 1 and is_palindrome = true.
C9_RuleTwoTerminal ==
  (resp.op = "parse" /\ Contains("single word palindromic strings", Lower(resp.arg)))
  => /\ resp.status = "OK"
     /\ resp.body[1] = [NoFilters EXCEPT !.word_count = Some(1),
                                         !.is_palindrome = Some(TRUE)]

\* the places <<i, e>> of a query where "longer than ", digits up to e and
\* " characters" follow one another
LengthPhrases(q) ==
  {p \in {i \in 1..Len(q) : Slice(q, i, i + 11) = "longer than "} \X (1..Len(q)) :
     /\ p[2] >= p[1] + 12
     /\ \A x \in (p[1] + 12)..p[2] : IsDigit(Char(q, x))
     /\ Slice(q, p[2] + 1, p[2] + 11) = " characters"}

\* the places of a query where "strings containing the letter " is followed
\* by a lower-case letter
LetterPhrases(q) ==
  {i \in 1..Len(q) :
     /\ Slice(q, i, i + 29) = "strings containing the letter "
     /\ \E x \in 1..26 : Char(LowerAlpha, x) = Slice(q, i + 30, i + 30)}

\* C9 as amended: for a query with "single word palindromic strings" the
\* translator succeeds with word_count = 1 and is_palindrome = true, and
\* only the "single word" rule is skipped: min_length = N + 1 is set exactly
\* when the lower-cased query holds "longer than N characters" (the first
\* such N), contains_character = X exactly when it holds "strings
\* containing the letter X" (the first such X), and the vowel flag exactly
\* when it holds "contains a vowel".
C9_RuleTwoSkipsOnlyRuleThree ==
  (resp.op = "parse" /\ Contains("single word palindromic strings", Lower(resp.arg)))
  => LET q == Lower(resp.arg)
         f == resp.body[1]
     IN /\ resp.status = "OK"
        /\ f.word_count = Some(1)
        /\ f.is_palindrome = Some(TRUE)
        /\ (f.min_length = None) <=> (LengthPhrases(q) = {})
        /\ f.min_length # None =>
             \E p \in LengthPhrases(q) :
               /\ \A o \in LengthPhrases(q) : p[1] <= o[1]
               /\ f.min_length[1] = DigitsValue(Slice(q, p[1] + 12, p[2])) + 1
        /\ (f.contains_character = None) <=> (LetterPhrases(q) = {})
        /\ f.contains_character # None =>
             \E i \in LetterPhrases(q) :
               /\ \A o \in LetterPhrases(q) : i <= o
               /\ f.contains_character[1] = Char(q, i + 30)
        /\ (f.contains_vowel # None) <=> Contains("contains a vowel", q)

\* a query with "single word palindromic strings" translated to a filter
\* set that also holds a min_length and a contains_character
C9_Witness ==
  /\ resp.op = "parse"
  /\ Contains("single word palindromic strings", Lower(resp.arg))
  /\ resp.status = "OK"
  /\ resp.body[1].min_length # None
  /\ resp.body[1].contains_character # None

====
